---- MODULE Spec2Model ----
(***************************************************************************)
(* A model of utils_sandra_otubushin.py: the "byline" (project header)     *)
(* module.  The module's top-level code (logger selection, optional        *)
(* text-to-speech import, static profile data, derived statistics and the  *)
(* formatted byline) is one action, ModuleLoad; the functions the module   *)
(* defines (compose_byline, get_byline, read_byline_aloud, self_check,     *)
(* main) and the logger's methods are one action each.                     *)
(*                                                                         *)
(* Numbers.  Satisfaction scores are floats with one decimal; the model    *)
(* holds a score as its integer number of tenths (4.8 is 48).  The mean is *)
(* held as the exact fraction statistics.mean computes before it converts  *)
(* to float, and the standard deviation as the exact fraction under the    *)
(* square root of statistics.stdev.  Conversion to float is monotone, so   *)
(* order comparisons on the fractions are the comparisons of the floats.   *)
(*                                                                         *)
(* Text.  Strings are TLA+ strings, "\n" is the line feed.  TLA+ strings   *)
(* are ASCII: the em dash (U+2014) of the title line is written "-".       *)
(***************************************************************************)
EXTENDS Integers, Sequences, FiniteSets, TLC

VARIABLES
    phase,                 \* "unloaded" | "loaded" | "failed": the module import
    loadError,             \* the exception that aborted the import, or "none"
    env,                   \* what the environment provides: which imports succeed
    logger,                \* the logger variant bound at lines 21 / 37
    pyttsx3,               \* line 41 / 44: the imported package, or None
    _tts_available,        \* line 42 / 45
    author,                \* line 48
    organization,          \* line 49
    current_year,          \* line 58
    year_started,          \* line 59
    services,              \* line 62
    satisfaction_scores,   \* line 63, in tenths
    office_locations,      \* line 64
    years_active,          \* line 67
    count_of_services,     \* line 68
    count_of_scores,       \* line 69
    count_of_locations,    \* line 70
    min_score,             \* line 71, in tenths
    max_score,             \* line 72, in tenths
    mean_score,            \* line 73, the fraction [num, den] of tenths
    stdev_score,           \* line 74, the fraction [num, den] of tenths^2 under the root
    byline,                \* lines 77-97
    output,                \* what was written, in program order: records handed
                           \* to loguru's sinks and texts print() wrote
    tts,                   \* speech-engine operations invoked, in order
    last,                  \* the last call made on the module and how it ended
    calls                  \* number of calls made on the module so far

vars == <<phase, loadError, env, logger, pyttsx3, _tts_available, author, organization,
          current_year, year_started, services, satisfaction_scores,
          office_locations, years_active, count_of_services, count_of_scores,
          count_of_locations, min_score, max_score, mean_score, stdev_score,
          byline, output, tts, last, calls>>

staticVars == <<author, organization, current_year, year_started, services,
                satisfaction_scores, office_locations>>

derivedVars == <<years_active, count_of_services, count_of_scores,
                 count_of_locations, min_score, max_score, mean_score,
                 stdev_score, byline>>

loadVars == <<phase, loadError, env, logger, pyttsx3, _tts_available>>

----------------------------------------------------------------------------
(* Bounds of the model *)

\* calls made on the loaded module in one behaviour
MaxCalls == 3
\* longest score sequence drawn by the statistics specification
MaxLen == 3
\* score values (tenths) the statistics specification draws from
ScoreValues == {0, 25, 47, 48, 50}

\* a name not yet bound (module not loaded, or the import aborted before it)
Unbound == "<unbound>"

----------------------------------------------------------------------------
(* The static profile, lines 48-64 *)

ShippedAuthor == "Sandra Otubushin"
ShippedOrganization == "Sandra Analytics"
motto == "Excellence. Stewardship. Impact."
location == "Dallas, TX"
is_accepting_clients == TRUE
offers_remote_workshops == TRUE
is_hiring == FALSE
ShippedCurrentYear == 2025
ShippedYearStarted == 2020
number_of_employees == 25
ShippedServices == <<"Data Analysis", "Machine Learning", "Business Intelligence">>
ShippedScores == <<48, 46, 49, 50, 47>>
ShippedLocations == <<"Dallas, TX", "Houston, TX", "Austin, TX", "Chicago, IL">>

----------------------------------------------------------------------------
(* Python built-ins and the statistics module, on tenths *)

RECURSIVE SumSeq(_)
SumSeq(s) == IF s = <<>> THEN 0 ELSE Head(s) + SumSeq(Tail(s))

\* min(xs) and max(xs) of a non-empty sequence
MinOf(s) == CHOOSE x \in {s[i] : i \in 1..Len(s)} :
                \A y \in {s[i] : i \in 1..Len(s)} : x <= y
MaxOf(s) == CHOOSE x \in {s[i] : i \in 1..Len(s)} :
                \A y \in {s[i] : i \in 1..Len(s)} : x >= y

\* statistics.mean: the exact sum over the count (then converted to float)
MeanMutSampleDivisor(s) == [num |-> SumSeq(s), den |-> Len(s) - 1]
Mean(s) == [num |-> SumSeq(s), den |-> Len(s)]

\* statistics._ss: the exact sum of squared deviations from the mean,
\* sum((x - S/n)^2) = sum((n*x - S)^2) / n^2
SumSqDev(s) ==
    LET n == Len(s)
        S == SumSeq(s)
    IN  [num |-> SumSeq([i \in 1..n |-> (n * s[i] - S) * (n * s[i] - S)]),
         den |-> n * n]

\* statistics.stdev: sqrt(ss / (n - 1)); the fraction under the root
StdevMutPopulation(s) ==
    [num |-> SumSqDev(s).num, den |-> SumSqDev(s).den * Len(s)]
Stdev(s) ==
    [num |-> SumSqDev(s).num, den |-> SumSqDev(s).den * (Len(s) - 1)]

\* fraction comparisons (denominators are positive)
FracLeq(a, b) == a.num * b.den <= b.num * a.den
IntFrac(n) == [num |-> n, den |-> 1]

\* The exception the derived metrics of lines 67-74 raise, "none" if none:
\* min() of an empty list raises ValueError at line 71, before statistics is
\* reached; statistics.stdev raises StatisticsError at line 74 for one point.
StatsErrorMutNoMinimum(s) == IF Len(s) = 0 THEN "ValueError" ELSE "none"
StatsError(s) ==
    IF Len(s) = 0 THEN "ValueError"
    ELSE IF Len(s) < 2 THEN "StatisticsError"
    ELSE "none"

----------------------------------------------------------------------------
(* Text formatting *)

Digit(d) == <<"0", "1", "2", "3", "4", "5", "6", "7", "8", "9">>[d + 1]

\* str(n) of a non-negative int
RECURSIVE NatStr(_)
NatStr(n) == IF n < 10 THEN Digit(n) ELSE NatStr(n \div 10) \o Digit(n % 10)

\* str(n) of an int
IntStr(n) == IF n < 0 THEN "-" \o NatStr(-n) ELSE NatStr(n)

\* str(b) of a bool
BoolStr(b) == IF b THEN "True" ELSE "False"

\* repr(x) of a float with one decimal, given in tenths (non-negative)
FloatRepr(t) == NatStr(t \div 10) \o "." \o Digit(t % 10)

\* f"{x:.2f}" of a non-negative value given in hundredths, already rounded
Fixed2(h) == NatStr(h \div 100) \o "." \o Digit((h % 100) \div 10) \o Digit(h % 10)

\* The roundings to two decimals "{mean_score:.2f}" can show.  The mean is
\* num/den tenths, i.e. 10*num/den hundredths.  Off a decimal tie the result
\* is the nearest hundredth; exactly on a tie the binary float nearest the
\* mean lies on either side, and both neighbours are possible outcomes.
MeanHundredths(m) ==
    LET q == (10 * m.num) \div m.den
        r == (10 * m.num) % m.den
    IN  IF 2 * r < m.den THEN {q}
        ELSE IF 2 * r > m.den THEN {q + 1}
        ELSE {q, q + 1}

\* The roundings to two decimals "{stdev_score:.2f}" can show: h hundredths
\* with h - 1/2 <= 10 * sqrt(num/den) <= h + 1/2, squared to stay in the
\* integers: (2h-1)^2 * den <= 400 * num <= (2h+1)^2 * den.
StdevHundredths(v) ==
    {h \in 0..1000 :
        /\ h = 0 \/ (2 * h - 1) * (2 * h - 1) * v.den <= 400 * v.num
        /\ 400 * v.num <= (2 * h + 1) * (2 * h + 1) * v.den}

\* ", ".join(items)
RECURSIVE JoinComma(_)
JoinComma(items) ==
    IF items = <<>> THEN ""
    ELSE IF Len(items) = 1 THEN items[1]
    ELSE items[1] \o ", " \o JoinComma(Tail(items))

\* str() of a list of str: each item in single quotes (no item holds a quote)
ReprStrList(xs) ==
    "[" \o JoinComma([i \in 1..Len(xs) |-> "'" \o xs[i] \o "'"]) \o "]"

\* str() of a list of float
ReprFloatList(xs) ==
    "[" \o JoinComma([i \in 1..Len(xs) |-> FloatRepr(xs[i])]) \o "]"

\* s.strip("\n")
RECURSIVE StripNewlines(_)
StripNewlines(s) ==
    IF Len(s) > 0 /\ SubSeq(s, 1, 1) = "\n"
        THEN StripNewlines(SubSeq(s, 2, Len(s)))
    ELSE IF Len(s) > 0 /\ SubSeq(s, Len(s), Len(s)) = "\n"
        THEN StripNewlines(SubSeq(s, 1, Len(s) - 1))
    ELSE s

\* Python's "needle in text" on str
Contains(text, needle) ==
    \E i \in 1..(Len(text) - Len(needle) + 1) :
        SubSeq(text, i, i + Len(needle) - 1) = needle

Border == "**********************************************************"

\* The f-string of lines 77-97 over the module's globals g, with the mean
\* and the standard deviation rounded to meanH and stdevH hundredths.
FormatByline(g, meanH, stdevH) ==
    StripNewlines(
        "\n" \o Border \o "\n"
        \o g.organization \o " - Project Header\n"
        \o Border \o "\n"
        \o "Author:                     " \o g.author \o "\n"
        \o "Motto:                      " \o motto \o "\n"
        \o "Primary Location:           " \o location \o "\n"
        \o "Years Active:               " \o IntStr(g.years_active)
            \o " (since " \o IntStr(g.year_started) \o ")\n"
        \o "Accepting New Clients?:     " \o BoolStr(is_accepting_clients) \o "\n"
        \o "Currently Hiring?:          " \o BoolStr(is_hiring) \o "\n"
        \o "Remote Workshops?:          " \o BoolStr(offers_remote_workshops) \o "\n"
        \o "Employees:                  " \o IntStr(number_of_employees) \o "\n"
        \o "Office Locations (" \o IntStr(g.count_of_locations) \o "):  "
            \o ReprStrList(g.office_locations) \o "\n"
        \o "Services (" \o IntStr(g.count_of_services) \o "):           "
            \o ReprStrList(g.services) \o "\n"
        \o "Client Satisfaction Scores (" \o IntStr(g.count_of_scores) \o "): "
            \o ReprFloatList(g.satisfaction_scores) \o "\n"
        \o "Minimum Satisfaction Score: " \o FloatRepr(g.min_score) \o "\n"
        \o "Maximum Satisfaction Score: " \o FloatRepr(g.max_score) \o "\n"
        \o "Mean Satisfaction Score:    " \o Fixed2(meanH) \o "\n"
        \o "     Standard Deviation:    " \o Fixed2(stdevH) \o "\n"
        \o Border \o "\n")

----------------------------------------------------------------------------
(* The logger, lines 19-38 *)

\* The variant the try/except of lines 19-38 binds: loguru's logger when the
\* import and logger.add both succeed, otherwise a _FallbackLogger.
SelectLoggerMutAddUnguarded(e) ==
    IF e.loguru # "import_fails" THEN "loguru" ELSE "fallback"
SelectLogger(e) == IF e.loguru = "ok" THEN "loguru" ELSE "fallback"

\* The prefix _FallbackLogger's info / warning / error print, lines 33-35
FallbackPrefix(level) ==
    CASE level = "INFO" -> "[INFO] "
      [] level = "WARNING" -> "[WARN] "
      [] level = "ERROR" -> "[ERROR] "

\* One written item: sink "loguru" (a record of the given level handed to
\* loguru's sinks: the log file and loguru's own stderr handler) or sink
\* "stdout" (a text print() wrote; level "" there).
LogRecord(level, msg) == [sink |-> "loguru", level |-> level, text |-> msg]
Printed(text) == [sink |-> "stdout", level |-> "", text |-> text]

\* logger.info / .warning / .error (msg) appended to the written items out:
\* loguru hands a record to its sinks; the fallback prints the prefixed text.
Emit(lg, out, level, msg) ==
    IF lg = "loguru"
        THEN Append(out, LogRecord(level, msg))
        ELSE Append(out, Printed(FallbackPrefix(level) \o msg))

\* print(text)
PrintOut(out, text) == Append(out, Printed(text))

----------------------------------------------------------------------------
(* Module load, lines 12-97 *)

\* What can go wrong inside the speech engine during one narration: nothing,
\* or one of its three operations raises, either an Exception (an engine
\* error) or KeyboardInterrupt (Ctrl+C, a BaseException that is no Exception).
NoFault == [step |-> 0, kind |-> "none"]
Faults == {NoFault} \cup [step : 1..3, kind : {"Exception", "KeyboardInterrupt"}]

\* The record of a call: the function, how it ended ("returned" with its
\* value, or "raised" with the exception and its message) and, for a
\* narration, the engine fault it met.
NoCall == [op |-> "none", outcome |-> "none", value |-> "", exc |-> "none",
           fault |-> NoFault]
Returned(op, v) == [op |-> op, outcome |-> "returned", value |-> v,
                    exc |-> "none", fault |-> NoFault]
Raised(op, e, msg) == [op |-> op, outcome |-> "raised", value |-> msg,
                       exc |-> e, fault |-> NoFault]

Environments == [loguru : {"ok", "import_fails", "add_fails"},
                 pyttsx3 : {"ok", "import_fails"}]

\* Before the import: the static data is what lines 48-64 will bind, nothing
\* else is bound, nothing was written.
InitWith(scores) ==
    /\ phase = "unloaded"
    /\ loadError = "none"
    /\ env \in Environments
    /\ logger = Unbound
    /\ pyttsx3 = Unbound
    /\ _tts_available = FALSE
    /\ author = ShippedAuthor
    /\ organization = ShippedOrganization
    /\ current_year = ShippedCurrentYear
    /\ year_started = ShippedYearStarted
    /\ services = ShippedServices
    /\ satisfaction_scores = scores
    /\ office_locations = ShippedLocations
    /\ years_active = Unbound
    /\ count_of_services = Unbound
    /\ count_of_scores = Unbound
    /\ count_of_locations = Unbound
    /\ min_score = Unbound
    /\ max_score = Unbound
    /\ mean_score = Unbound
    /\ stdev_score = Unbound
    /\ byline = Unbound
    /\ output = <<>>
    /\ tts = <<>>
    /\ last = NoCall
    /\ calls = 0

Init == InitWith(ShippedScores)

\* The module's top-level code, run top to bottom.  An exception of the
\* derived metrics aborts the import at the line that raises: the names
\* assigned before that line are bound, the names from it on never are
\* (lines 67-70 always run; min() at line 71 raises for the empty list;
\* statistics.stdev at line 74 raises for a one-element list).  The importer
\* gets no module: the import system discards the partially initialised one.
ModuleLoad ==
    /\ phase = "unloaded"
    /\ LET lg == SelectLogger(env)
           out1 == IF lg = "loguru"
                      THEN Emit(lg, output, "INFO", "Logger loaded.")
                      ELSE Emit(lg, output, "INFO",
                                "Loguru not available. Using fallback logger.")
           err == StatsError(satisfaction_scores)
       IN  /\ logger' = lg
           /\ output' = out1
           /\ pyttsx3' = (IF env.pyttsx3 = "ok" THEN "module" ELSE "None")
           /\ _tts_available' = (env.pyttsx3 = "ok")
           /\ years_active' = current_year - year_started
           /\ count_of_services' = Len(services)
           /\ count_of_scores' = Len(satisfaction_scores)
           /\ count_of_locations' = Len(office_locations)
           /\ IF err = "ValueError"
                 THEN /\ phase' = "failed"
                      /\ loadError' = err
                      /\ UNCHANGED <<min_score, max_score, mean_score,
                                     stdev_score, byline>>
              ELSE IF err = "StatisticsError"
                 THEN /\ phase' = "failed"
                      /\ loadError' = err
                      /\ min_score' = MinOf(satisfaction_scores)
                      /\ max_score' = MaxOf(satisfaction_scores)
                      /\ mean_score' = Mean(satisfaction_scores)
                      /\ UNCHANGED <<stdev_score, byline>>
                 ELSE /\ phase' = "loaded"
                      /\ loadError' = "none"
                      /\ min_score' = MinOf(satisfaction_scores)
                      /\ max_score' = MaxOf(satisfaction_scores)
                      /\ mean_score' = Mean(satisfaction_scores)
                      /\ stdev_score' = Stdev(satisfaction_scores)
                      /\ \E meanH \in MeanHundredths(Mean(satisfaction_scores)),
                            stdevH \in StdevHundredths(Stdev(satisfaction_scores)) :
                            byline' = FormatByline(
                                [organization |-> organization,
                                 author |-> author,
                                 years_active |-> years_active',
                                 year_started |-> year_started,
                                 count_of_locations |-> count_of_locations',
                                 office_locations |-> office_locations,
                                 count_of_services |-> count_of_services',
                                 services |-> services,
                                 count_of_scores |-> count_of_scores',
                                 satisfaction_scores |-> satisfaction_scores,
                                 min_score |-> min_score',
                                 max_score |-> max_score'],
                                meanH, stdevH)
    /\ UNCHANGED <<env, staticVars, tts, last, calls>>

----------------------------------------------------------------------------
(* The module's functions.  Each needs the import to have succeeded. *)

CanCall == phase = "loaded" /\ calls < MaxCalls

\* compose_byline(), lines 101-103
ComposeBylineResultMutUnstripped == "\n" \o byline \o "\n"
ComposeBylineResult == byline
ComposeByline ==
    /\ CanCall
    /\ last' = Returned("compose_byline", ComposeBylineResult)
    /\ calls' = calls + 1
    /\ UNCHANGED <<loadVars, staticVars, derivedVars, output, tts>>

\* get_byline(), lines 106-108
GetBylineResult == byline
GetByline ==
    /\ CanCall
    /\ last' = Returned("get_byline", GetBylineResult)
    /\ calls' = calls + 1
    /\ UNCHANGED <<loadVars, staticVars, derivedVars, output, tts>>

\* str(exc) of an engine error
EngineErrorText == "engine failure"

\* The engine operations a narration invokes, up to and including the one
\* that raises; say() is handed get_byline().
EngineCalls(fault) ==
    LET all == <<<<"init">>, <<"say", GetBylineResult>>, <<"runAndWait">>>>
    IN  IF fault.step = 0 THEN all ELSE SubSeq(all, 1, fault.step)

\* The test of line 113, "not _tts_available or pyttsx3 is None"
SpeechUnavailableMutFlagOnly == ~_tts_available
SpeechUnavailable == ~_tts_available \/ pyttsx3 = "None"

\* Whether the handler "except Exception" of line 120 catches the exception
Line120CatchesMutNarrow(kind) == FALSE
Line120Catches(kind) == kind = "Exception"

\* read_byline_aloud(), lines 111-121
ReadBylineAloud ==
    /\ CanCall
    /\ \E fault \in Faults :
        IF SpeechUnavailable
            THEN /\ fault = NoFault
                 /\ output' = Emit(logger, output, "WARNING",
                                   "pyttsx3 not installed; skipping text-to-speech.")
                 /\ tts' = tts
                 /\ last' = Returned("read_byline_aloud", "None")
            ELSE /\ tts' = tts \o EngineCalls(fault)
                 /\ IF fault.step = 0
                       THEN /\ output' = output
                            /\ last' = Returned("read_byline_aloud", "None")
                    ELSE IF Line120Catches(fault.kind)
                       THEN /\ output' = Emit(logger, output, "WARNING",
                                              "TTS unavailable: " \o EngineErrorText)
                            /\ last' = [Returned("read_byline_aloud", "None")
                                           EXCEPT !.fault = fault]
                       ELSE /\ output' = output
                            /\ last' = [Raised("read_byline_aloud", fault.kind, "")
                                           EXCEPT !.fault = fault]
    /\ calls' = calls + 1
    /\ UNCHANGED <<loadVars, staticVars, derivedVars>>

\* The message of the first assertion of self_check() that fails, lines
\* 127-132, "none" if all hold.
SelfCheckFailure ==
    IF years_active # current_year - year_started
        THEN "years_active calculation mismatch"
    ELSE IF count_of_services # Len(services)
        THEN "count_of_services mismatch"
    ELSE IF count_of_locations # Len(office_locations)
        THEN "count_of_locations mismatch"
    ELSE IF ~(FracLeq(IntFrac(min_score), mean_score)
              /\ FracLeq(mean_score, IntFrac(max_score)))
        THEN "mean not between min and max"
    ELSE IF ~(Contains(GetBylineResult, organization)
              /\ Contains(GetBylineResult, author))
        THEN "byline missing core fields"
    ELSE "none"

\* self_check(), lines 125-133
SelfCheck ==
    /\ CanCall
    /\ IF SelfCheckFailure # "none"
          THEN /\ last' = Raised("self_check", "AssertionError", SelfCheckFailure)
               /\ output' = output
          ELSE /\ output' = Emit(logger, output, "INFO", "Self-check passed.")
               /\ last' = Returned("self_check", "None")
    /\ calls' = calls + 1
    /\ UNCHANGED <<loadVars, staticVars, derivedVars, tts>>

\* What is written once main() has run, lines 139-159.  The try block of lines 148-155
\* holds only "pass" (the call of read_byline_aloud is commented out), so
\* neither of its handlers can run.
MainOutputsMutPrintLast ==
    LET o1 == Emit(logger, output, "INFO", "STARTING main()..")
        o2 == Emit(logger, o1, "INFO", "Byline:\n" \o GetBylineResult)
        o4 == Emit(logger, o2, "INFO",
                   "This module is organized like all Python modules.")
        o5 == Emit(logger, o4, "INFO",
                   "We write professional Python from the start.")
        o6 == Emit(logger, o5, "INFO", "END main()...")
    IN  PrintOut(o6, GetBylineResult)
MainOutputs ==
    LET o1 == Emit(logger, output, "INFO", "STARTING main()..")
        o2 == Emit(logger, o1, "INFO", "Byline:\n" \o GetBylineResult)
        o3 == PrintOut(o2, GetBylineResult)
        o4 == Emit(logger, o3, "INFO",
                   "This module is organized like all Python modules.")
        o5 == Emit(logger, o4, "INFO",
                   "We write professional Python from the start.")
    IN  Emit(logger, o5, "INFO", "END main()...")

\* main(), lines 139-159
Main ==
    /\ CanCall
    /\ output' = MainOutputs
    /\ last' = Returned("main", "None")
    /\ calls' = calls + 1
    /\ UNCHANGED <<loadVars, staticVars, derivedVars, tts>>

\* A caller's use of the module's logger object: logger.info(msg),
\* logger.warning(msg), logger.error(msg); lines 33-35 for the fallback.
CallerMessage == "note"

LoggerInfo ==
    /\ CanCall
    /\ output' = Emit(logger, output, "INFO", CallerMessage)
    /\ last' = Returned("logger.info", "None")
    /\ calls' = calls + 1
    /\ UNCHANGED <<loadVars, staticVars, derivedVars, tts>>

LoggerWarning ==
    /\ CanCall
    /\ output' = Emit(logger, output, "WARNING", CallerMessage)
    /\ last' = Returned("logger.warning", "None")
    /\ calls' = calls + 1
    /\ UNCHANGED <<loadVars, staticVars, derivedVars, tts>>

LoggerError ==
    /\ CanCall
    /\ output' = Emit(logger, output, "ERROR", CallerMessage)
    /\ last' = Returned("logger.error", "None")
    /\ calls' = calls + 1
    /\ UNCHANGED <<loadVars, staticVars, derivedVars, tts>>

----------------------------------------------------------------------------
(* An importing program's in-place changes.  The module's globals are plain *)
(* module attributes and its lists are mutable objects: nothing stops an    *)
(* importer from appending to a list or rebinding a name after the import.  *)

ExtraScores == {45}
ExtraLabel == "Remote"
OtherAuthor == "A. N. Other"
OtherYears == {2026}

AppendScore ==
    /\ CanCall
    /\ \E x \in ExtraScores :
          satisfaction_scores' = Append(satisfaction_scores, x)
    /\ calls' = calls + 1
    /\ last' = Returned("satisfaction_scores.append", "None")
    /\ UNCHANGED <<loadVars, derivedVars, output, tts, author, organization,
                   current_year, year_started, services, office_locations>>

AppendService ==
    /\ CanCall
    /\ services' = Append(services, ExtraLabel)
    /\ calls' = calls + 1
    /\ last' = Returned("services.append", "None")
    /\ UNCHANGED <<loadVars, derivedVars, output, tts, author, organization,
                   current_year, year_started, satisfaction_scores,
                   office_locations>>

AppendLocation ==
    /\ CanCall
    /\ office_locations' = Append(office_locations, ExtraLabel)
    /\ calls' = calls + 1
    /\ last' = Returned("office_locations.append", "None")
    /\ UNCHANGED <<loadVars, derivedVars, output, tts, author, organization,
                   current_year, year_started, services, satisfaction_scores>>

RebindAuthor ==
    /\ CanCall
    /\ author' = OtherAuthor
    /\ calls' = calls + 1
    /\ last' = Returned("author =", "None")
    /\ UNCHANGED <<loadVars, derivedVars, output, tts, organization,
                   current_year, year_started, services, satisfaction_scores,
                   office_locations>>

RebindCurrentYear ==
    /\ CanCall
    /\ \E y \in OtherYears : current_year' = y
    /\ calls' = calls + 1
    /\ last' = Returned("current_year =", "None")
    /\ UNCHANGED <<loadVars, derivedVars, output, tts, author, organization,
                   year_started, services, satisfaction_scores, office_locations>>

\* The importer writes the module's flag: mod._tts_available = b.  The
\* global pyttsx3 stays what the import bound.
RebindTtsAvailable ==
    /\ CanCall
    /\ \E b \in BOOLEAN : _tts_available' = b
    /\ calls' = calls + 1
    /\ last' = Returned("_tts_available =", "None")
    /\ UNCHANGED <<phase, loadError, env, logger, pyttsx3, staticVars,
                   derivedVars, output, tts>>

----------------------------------------------------------------------------
(* Specifications *)

\* The module as shipped, used through its functions and its logger
Next ==
    \/ ModuleLoad
    \/ ComposeByline
    \/ GetByline
    \/ ReadBylineAloud
    \/ SelfCheck
    \/ Main
    \/ LoggerInfo
    \/ LoggerWarning
    \/ LoggerError

Spec == Init /\ [][Next]_vars

\* The statistics and the import over score lists of every length up to
\* MaxLen, the empty list and the one-element list included
RECURSIVE SeqsUpTo(_, _)
SeqsUpTo(S, n) ==
    IF n = 0 THEN {<<>>}
    ELSE LET shorter == SeqsUpTo(S, n - 1)
         IN  shorter \cup {Append(s, x) : s \in {t \in shorter : Len(t) = n - 1},
                                          x \in S}

InitStats == \E scores \in SeqsUpTo(ScoreValues, MaxLen) : InitWith(scores)

NextStats ==
    \/ ModuleLoad
    \/ ComposeByline
    \/ GetByline
    \/ SelfCheck

SpecStats == InitStats /\ [][NextStats]_vars

\* The shipped module in a program that also changes its globals in place
NextMutable ==
    \/ Next
    \/ AppendScore
    \/ AppendService
    \/ AppendLocation
    \/ RebindAuthor
    \/ RebindCurrentYear
    \/ RebindTtsAvailable

SpecMutable == Init /\ [][NextMutable]_vars

----------------------------------------------------------------------------
(* Vocabulary of the properties *)

\* The step is a call of op
CallOf(op) == calls' = calls + 1 /\ last'.op = op

\* What the step wrote
NewOutput == SubSeq(output', Len(output) + 1, Len(output'))

HasPrefix(text, p) == Len(text) >= Len(p) /\ SubSeq(text, 1, Len(p)) = p

\* The item ev is msg logged at the level, by the variant lg: a loguru record,
\* or the console line with the level's prefix
IsLogged(ev, lg, level, prefix, msg) ==
    \/ lg = "loguru" /\ ev = [sink |-> "loguru", level |-> level, text |-> msg]
    \/ lg = "fallback" /\ ev = [sink |-> "stdout", level |-> "", text |-> prefix \o msg]
IsInfo(ev, lg, msg) == IsLogged(ev, lg, "INFO", "[INFO] ", msg)

\* The item ev is some warning
IsWarning(ev, lg) ==
    \/ lg = "loguru" /\ ev.sink = "loguru" /\ ev.level = "WARNING"
    \/ lg = "fallback" /\ ev.sink = "stdout" /\ HasPrefix(ev.text, "[WARN] ")

\* The item ev is print(text)
IsPrint(ev, text) == ev = [sink |-> "stdout", level |-> "", text |-> text]

\* The byline of the shipped data: mean 4.80, standard deviation 0.16
ShippedByline ==
    FormatByline(
        [organization |-> ShippedOrganization,
         author |-> ShippedAuthor,
         years_active |-> ShippedCurrentYear - ShippedYearStarted,
         year_started |-> ShippedYearStarted,
         count_of_locations |-> 4,
         office_locations |-> ShippedLocations,
         count_of_services |-> 3,
         services |-> ShippedServices,
         count_of_scores |-> 5,
         satisfaction_scores |-> ShippedScores,
         min_score |-> 46,
         max_score |-> 50],
        480, 16)

----------------------------------------------------------------------------
(* Properties *)

\* C1: with the speech package absent (its import failed at module load),
\* read_byline_aloud() returns normally, writes exactly one item, a warning,
\* and invokes no speech-engine operation; also when an importer has
\* switched the module's flag on.
C1_AbsentSpeechDegrades ==
    [][(CallOf("read_byline_aloud") /\ env.pyttsx3 = "import_fails") =>
          /\ last'.outcome = "returned"
          /\ last'.exc = "none"
          /\ tts' = tts
          /\ Len(NewOutput) = 1
          /\ IsWarning(NewOutput[1], logger)]_vars

\* The package is absent, the flag was switched on by the importer, and the
\* narration still degraded: one call wrote the warning, no engine call.
C1_Witness ==
    /\ phase = "loaded"
    /\ env.pyttsx3 = "import_fails"
    /\ pyttsx3 = "None"
    /\ _tts_available
    /\ last.op = "read_byline_aloud"
    /\ last.outcome = "returned"
    /\ tts = <<>>
    /\ IsWarning(output[Len(output)], logger)

\* C2: with the speech package present, an Exception raised by the engine's
\* init, say or runAndWait is caught: read_byline_aloud() returns normally
\* after writing exactly one item, a warning, and the engine was driven up
\* to the operation that raised.
C2_EngineErrorIsCaught ==
    [][(CallOf("read_byline_aloud") /\ _tts_available
            /\ last'.fault.kind = "Exception") =>
          /\ last'.fault.step \in 1..3
          /\ last'.outcome = "returned"
          /\ last'.exc = "none"
          /\ Len(NewOutput) = 1
          /\ IsWarning(NewOutput[1], logger)
          /\ Len(tts') = Len(tts) + last'.fault.step]_vars

\* Three narrations, each ended by a caught engine error, the last one in
\* runAndWait: with six engine operations in all, the other two failed in
\* init and in say.
C2_Witness ==
    /\ _tts_available
    /\ last.op = "read_byline_aloud"
    /\ last.fault = [step |-> 3, kind |-> "Exception"]
    /\ last.outcome = "returned"
    /\ calls = 3
    /\ Len(tts) = 6
    /\ Cardinality({i \in 1..Len(output) : IsWarning(output[i], logger)}) = 3

\* C3: a KeyboardInterrupt arriving during the narration of
\* read_byline_aloud() ends it cleanly: the call returns, nothing propagates
\* to the caller.
C3_InterruptEndsNarrationCleanly ==
    (last.op = "read_byline_aloud" /\ last.fault.kind = "KeyboardInterrupt") =>
        /\ last.outcome = "returned"
        /\ last.exc = "none"

\* C4 as stated: for the shipped scores the statistics are count 5, min 4.6,
\* max 5.0, mean 4.80 and sample standard deviation 0.15 to two decimals,
\* and the byline shows them.
C4_ShippedStatisticsAsStated ==
    (phase = "loaded" /\ satisfaction_scores = ShippedScores) =>
        /\ count_of_scores = 5
        /\ min_score = 46
        /\ max_score = 50
        /\ MeanHundredths(mean_score) = {480}
        /\ StdevHundredths(stdev_score) = {15}
        /\ Contains(byline,
                    "\nClient Satisfaction Scores (5): [4.8, 4.6, 4.9, 5.0, 4.7]"
                    \o "\nMinimum Satisfaction Score: 4.6"
                    \o "\nMaximum Satisfaction Score: 5.0"
                    \o "\nMean Satisfaction Score:    4.80"
                    \o "\n     Standard Deviation:    0.15\n")

\* C4 amended: for the shipped scores the statistics are count 5, min 4.6,
\* max 5.0, mean 4.80 and sample standard deviation 0.16 to two decimals
\* (sqrt(0.025) = 0.158...), and the byline shows them.
C4_ShippedStatistics ==
    (phase = "loaded" /\ satisfaction_scores = ShippedScores) =>
        /\ count_of_scores = 5
        /\ min_score = 46
        /\ max_score = 50
        /\ MeanHundredths(mean_score) = {480}
        /\ StdevHundredths(stdev_score) = {16}
        /\ Contains(byline,
                    "\nClient Satisfaction Scores (5): [4.8, 4.6, 4.9, 5.0, 4.7]"
                    \o "\nMinimum Satisfaction Score: 4.6"
                    \o "\nMaximum Satisfaction Score: 5.0"
                    \o "\nMean Satisfaction Score:    4.80"
                    \o "\n     Standard Deviation:    0.16\n")

C4_Witness ==
    /\ phase = "loaded"
    /\ satisfaction_scores = ShippedScores
    /\ last.op = "get_byline"
    /\ Contains(last.value, "Standard Deviation:    0.16")

\* C5: for every score list of length at least 2 the derived statistics
\* satisfy min <= mean <= max and stdev >= 0, the mean being sum/n and the
\* standard deviation the root of (sum of squared deviations)/(n - 1), which
\* is (n * sum(x^2) - sum(x)^2) / (n * (n - 1)).
C5_StatisticsBounds ==
    (phase = "loaded" /\ Len(satisfaction_scores) >= 2) =>
        LET n == Len(satisfaction_scores)
            S == SumSeq(satisfaction_scores)
            SS == SumSeq([i \in 1..n |-> satisfaction_scores[i] * satisfaction_scores[i]])
        IN  /\ \A i \in 1..n : min_score <= satisfaction_scores[i]
            /\ \A i \in 1..n : satisfaction_scores[i] <= max_score
            /\ mean_score.den > 0
            /\ mean_score.num * n = S * mean_score.den
            /\ min_score * mean_score.den <= mean_score.num
            /\ mean_score.num <= max_score * mean_score.den
            /\ stdev_score.den > 0
            /\ stdev_score.num >= 0
            /\ stdev_score.num * (n * (n - 1)) = (n * SS - S * S) * stdev_score.den
            /\ \E h \in StdevHundredths(stdev_score) : h >= 0

C5_Witness ==
    /\ phase = "loaded"
    /\ Len(satisfaction_scores) >= 2
    /\ min_score < max_score
    /\ min_score * mean_score.den < mean_score.num
    /\ mean_score.num < max_score * mean_score.den
    /\ stdev_score.num > 0
    /\ last.op = "self_check"
    /\ last.outcome = "returned"

\* C6 as stated: a score list of fewer than two elements makes the import
\* fail with the StatisticsError of the sample standard deviation, before
\* the byline is bound, and no accessor ever returns.
C6_ShortScoresAsStated ==
    (phase # "unloaded" /\ Len(satisfaction_scores) < 2) =>
        /\ phase = "failed"
        /\ loadError = "StatisticsError"
        /\ byline = Unbound
        /\ last = NoCall

\* C6 amended: a score list of fewer than two elements makes the import
\* fail before the byline is bound, and no accessor ever returns; the error
\* is the StatisticsError of statistics.stdev for a one-element list and the
\* ValueError of min() for the empty list.
C6_ShortScoresAbortLoad ==
    (phase # "unloaded" /\ Len(satisfaction_scores) < 2) =>
        /\ phase = "failed"
        /\ Len(satisfaction_scores) = 1 => loadError = "StatisticsError"
        /\ Len(satisfaction_scores) = 0 => loadError = "ValueError"
        /\ count_of_scores = Len(satisfaction_scores)
        /\ stdev_score = Unbound
        /\ byline = Unbound
        /\ last = NoCall

C6_Witness ==
    /\ phase = "failed"
    /\ Len(satisfaction_scores) = 1
    /\ loadError = "StatisticsError"
    /\ byline = Unbound

\* C7: after any sequence of calls of the module's functions, get_byline()
\* and compose_byline() return the same text, the block formatted at the
\* import; neither fails; and the profile fields, the lists, the derived
\* statistics and the byline are what the import bound.
C7_BylineFixed ==
    phase = "loaded" =>
        /\ GetBylineResult = ComposeBylineResult
        /\ GetBylineResult = ShippedByline
        /\ last.op \in {"get_byline", "compose_byline"} =>
              /\ last.outcome = "returned"
              /\ last.value = ShippedByline
        /\ author = ShippedAuthor
        /\ organization = ShippedOrganization
        /\ current_year = ShippedCurrentYear
        /\ year_started = ShippedYearStarted
        /\ services = ShippedServices
        /\ satisfaction_scores = ShippedScores
        /\ office_locations = ShippedLocations
        /\ years_active = 5
        /\ count_of_services = 3
        /\ count_of_scores = 5
        /\ count_of_locations = 4
        /\ min_score = 46
        /\ max_score = 50
        /\ mean_score.num * 5 = 240 * mean_score.den
        /\ stdev_score.num * 100 = 250 * stdev_score.den

C7_Witness ==
    /\ phase = "loaded"
    /\ last.op = "compose_byline"
    /\ last.value = byline
    /\ \E i \in 1..Len(output) : IsPrint(output[i], byline)
    /\ tts # <<>>

\* C8: every run of main(), with either logger variant and with or without
\* the speech package, returns normally having written, in this order: the
\* start logged first, the block logged once and printed once, completion
\* logged last, after the print; nothing else of what it writes is a warning
\* or an error.
C8_MainPrintsOnce ==
    [][CallOf("main") =>
          LET new == NewOutput
              n == Len(new)
              prints == {i \in 1..n : IsPrint(new[i], byline)}
              logged == {i \in 1..n : IsInfo(new[i], logger, "Byline:\n" \o byline)}
          IN  /\ last'.outcome = "returned"
              /\ last'.exc = "none"
              /\ n >= 4
              /\ IsInfo(new[1], logger, "STARTING main()..")
              /\ Cardinality(prints) = 1
              /\ Cardinality(logged) = 1
              /\ IsInfo(new[n], logger, "END main()...")
              /\ \A i \in prints : 1 < i /\ i < n
              /\ \A i \in logged : 1 < i /\ i < n
              /\ \A i \in 1..n : i \notin prints =>
                    \E msg \in {"STARTING main()..", "Byline:\n" \o byline,
                                "This module is organized like all Python modules.",
                                "We write professional Python from the start.",
                                "END main()..."} : IsInfo(new[i], logger, msg)
              /\ tts' = tts
              /\ byline' = byline]_vars

C8_Witness ==
    /\ last.op = "main"
    /\ last.outcome = "returned"
    /\ logger = "fallback"
    /\ ~_tts_available
    /\ \E i \in 1..Len(output) : IsPrint(output[i], byline)

\* C9: the import binds exactly one logger variant and never rebinds it; if
\* loguru's import or its logger.add raises, the variant is the console
\* fallback and the import goes on; with the fallback every item written is
\* a console line, and logger.info / .warning / .error print the message
\* prefixed [INFO] / [WARN] / [ERROR] and return.
C9_FallbackLogger ==
    [][/\ phase' # "unloaded" =>
            /\ logger' \in {"loguru", "fallback"}
            /\ env'.loguru # "ok" => (logger' = "fallback" /\ phase' = "loaded")
            /\ env'.loguru = "ok" => logger' = "loguru"
            /\ logger' = "fallback" =>
                  \A i \in 1..Len(output') : output'[i].sink = "stdout"
       /\ phase # "unloaded" => logger' = logger
       /\ (logger = "fallback" /\ CallOf("logger.info")) =>
            /\ NewOutput = <<[sink |-> "stdout", level |-> "",
                              text |-> "[INFO] " \o CallerMessage]>>
            /\ last'.outcome = "returned"
       /\ (logger = "fallback" /\ CallOf("logger.warning")) =>
            /\ NewOutput = <<[sink |-> "stdout", level |-> "",
                              text |-> "[WARN] " \o CallerMessage]>>
            /\ last'.outcome = "returned"
       /\ (logger = "fallback" /\ CallOf("logger.error")) =>
            /\ NewOutput = <<[sink |-> "stdout", level |-> "",
                              text |-> "[ERROR] " \o CallerMessage]>>
            /\ last'.outcome = "returned"]_vars

C9_Witness ==
    /\ phase = "loaded"
    /\ env.loguru = "add_fails"
    /\ logger = "fallback"
    /\ last.op = "logger.error"
    /\ last.outcome = "returned"
    /\ output[Len(output)].text = "[ERROR] " \o CallerMessage

\* The consistency conditions C10 lists
ConsistencyConditions ==
    /\ years_active = current_year - year_started
    /\ count_of_services = Len(services)
    /\ count_of_locations = Len(office_locations)
    /\ count_of_scores = Len(satisfaction_scores)
    /\ min_score * mean_score.den <= mean_score.num
    /\ mean_score.num <= max_score * mean_score.den
    /\ Contains(byline, organization)
    /\ Contains(byline, author)

\* C10: self_check() raises AssertionError whenever one of the consistency
\* conditions is violated (years active, the three list counts, min <= mean
\* <= max, organization and author in the block), and otherwise logs success
\* and returns.
C10_SelfCheckDetectsEveryInconsistency ==
    last.op = "self_check" =>
        /\ ~ConsistencyConditions =>
              (last.outcome = "raised" /\ last.exc = "AssertionError")
        /\ ConsistencyConditions =>
              /\ last.outcome = "returned"
              /\ IsInfo(output[Len(output)], logger, "Self-check passed.")

====
